---------------------------- MODULE Spec2Model ----------------------------
(***************************************************************************)
(* Model of the QOI decoder of pkg/qoi/decoder.go: Decode, DecodeConfig    *)
(* and decodePixels, at the granularity of one step per header read, per   *)
(* pixel position of the x/y loops, and per end-marker check.              *)
(*                                                                         *)
(* The byte source is an in-memory reader (bytes.Reader): a Read of n >= 1 *)
(* bytes returns (0, io.EOF) when nothing remains and otherwise copies     *)
(* min(n, remaining) bytes and returns a nil error.                        *)
(*                                                                         *)
(* Pointers are modelled as pointers: last and the 64 entries of seen are  *)
(* references (to the package-level startPixel / zeroPixel, or to a pixel  *)
(* of img.Pix) and are dereferenced against the current memory.            *)
(***************************************************************************)
EXTENDS Integers, Sequences, FiniteSets, TLC

\* ------------------------------------------------------------------ bounds
\* largest number of op-code records in an input stream
MaxOps == 3
\* largest width and height in the header of an input given to Decode
MaxDim == 2

\* ------------------------------------------- package constants (not in src/)
opRgb == 254
opRgba == 255
op2Mask == 192
opIndex == 0
opDiff == 64
opLuma == 128
opRun == 192
Magic == <<113, 111, 105, 102>>
eof == [i \in 0..7 |-> IF i = 7 THEN 1 ELSE 0]
hashPix(p) == (p[1] * 3 + p[2] * 5 + p[3] * 7 + p[4] * 11) % 64

\* ---------------------------------------------------------- byte arithmetic
\* a uint8 result of an addition or subtraction of uint8 operands
U8(n) == n % 256
Min(a, b) == IF a < b THEN a ELSE b

\* ----------------------------------------------------------------- pointers
StartRef == <<"startPixel", 0>>
ZeroRef == <<"zeroPixel", 0>>
PixRef(i) == <<"pix", i>>

\* ------------------------------------------------------------------- errors
NoErr == "nil"
ErrEOF == "io.EOF"
ErrUnexpectedEOF == "io.ErrUnexpectedEOF"
ErrInvalidMagic == "ErrInvalidMagic"
ErrInvalidRunLength == "ErrInvalidRunLength"
ErrInvalidEOF == "ErrInvalidEOF"

\* the nil image.Image and the zero image.Config
NilImage == [nil |-> TRUE, Width |-> 0, Height |-> 0, Pix |-> <<>>]
ZeroConfig == [Width |-> 0, Height |-> 0]

\* ------------------------------------------------------------------- inputs
RECURSIVE Concat(_)
Concat(ss) == IF ss = <<>> THEN <<>> ELSE Head(ss) \o Concat(Tail(ss))

\* op-code records: RGB (its pixel has hash 9 with alpha 255), RGBA (its pixel
\* has hash 9 too), INDEX 9,
\* DIFF (+1, -2, 0), LUMA (dg -32, dr -40, db -33), RUN of length 2
OpRecords ==
    { <<254, 1, 2, 1>>, <<255, 10, 20, 30, 255>>, <<9>>,
      <<114>>, <<128, 7>>, <<193>> }

EofMarker == <<0, 0, 0, 0, 0, 0, 0, 1>>

\* what follows the op-code records: the end marker, the end marker with a
\* wrong last byte, nothing, 7 of the 8 marker bytes, an RGBA record and a
\* LUMA record cut short, and a RUN of length 62 before the end marker
Tails ==
    { EofMarker, <<0, 0, 0, 0, 0, 0, 0, 2>>, <<>>, <<0, 0, 0, 0, 0, 0, 0>>,
      <<255, 10, 20>>, <<128>>, <<253>> \o EofMarker }

\* the pixel streams for an image of n pixels: at most one record per pixel
\* and at most MaxOps records, then a tail
Bodies(n) ==
    { Concat(ops) \o t :
        ops \in UNION { [1..k -> OpRecords] : k \in 0..Min(MaxOps, n) },
        t \in Tails }

Header(m, w, h, c, s) == m \o w \o h \o <<c, s>>

\* headers of the images given to Decode
SmallHeader(w, h) == Header(Magic, <<0, 0, 0, w>>, <<0, 0, 0, h>>, 4, 0)
SmallHeaders == { SmallHeader(w, h) : w \in 0..MaxDim, h \in 0..MaxDim }

\* headers given to DecodeConfig and to the failing paths of Decode (the first
\* byte of a width or height stays below 128: TLC's integers are 32-bit signed)
Magics == { Magic, <<113, 111, 105, 120>>, <<81, 111, 105, 102>> }
WideHeaders ==
    { Header(Magic, w, h, c, s) :
        w \in { <<0, 0, 0, 3>>, <<0, 0, 1, 2>>, <<1, 2, 3, 4>>, <<127, 255, 255, 255>> },
        h \in { <<0, 0, 0, 0>>, <<0, 7, 0, 0>>, <<64, 0, 0, 9>> },
        c \in { 3, 4, 0 }, s \in { 0, 1, 200 } }
BadMagicHeaders ==
    { Header(m, <<0, 0, 0, 1>>, <<0, 0, 0, 1>>, c, s) :
        m \in Magics \ { Magic }, c \in { 4, 0 }, s \in { 0, 200 } }
ShortStreams ==
    { SubSeq(hd, 1, n) : hd \in SmallHeaders \cup BadMagicHeaders, n \in 0..13 }

DecodeInputs ==
    UNION { { SmallHeader(w, h) \o b : b \in Bodies(w * h) } :
              w \in 0..MaxDim, h \in 0..MaxDim }
      \cup { hd \o t : hd \in BadMagicHeaders, t \in { <<>>, <<255, 10, 20, 30, 255>> \o EofMarker } }
      \cup ShortStreams
DecodeConfigInputs ==
    { hd \o t : hd \in WideHeaders \cup SmallHeaders \cup BadMagicHeaders,
                t \in { <<>>, <<254, 1, 2, 3>> } }
      \cup ShortStreams

\* -------------------------------------------------------------------- state
VARIABLES
    stream,      \* the bytes behind the io.Reader r
    call,        \* the entry point called: "Decode" or "DecodeConfig"
    callNo,      \* 1 for the first call on the bytes, 2 for the second
    first,       \* what the first call returned
    pos,         \* r's read position: the number of bytes consumed
    pc,          \* "start", "init", "pixels", "done"
    conf,        \* the image.Config DecodeConfig returned
    err,         \* the error returned
    ret,         \* the image.Image returned
    Pix,         \* img.Pix, one <<r, g, b, a>> per pixel, row-major
    x, y,        \* the loop variables of decodePixels
    last,        \* decodePixels' last: a pointer to a pixel
    buf,         \* decodePixels' 8-byte scratch buffer
    run,         \* decodePixels' run counter
    seen,        \* decodePixels' 64 pointers to pixels
    startPixel,  \* the package-level start pixel
    zeroPixel,   \* the package-level zero pixel
    op,          \* the branch the last step took
    short,       \* the last step asked r for more bytes than remained
    peer         \* a second, concurrent call: its source, locals and results

vars == << stream, call, callNo, first, pos, pc, conf, err, ret, Pix, x, y,
           last, buf, run, seen, startPixel, zeroPixel, op, short, peer >>

\* ------------------------------------------------------------------- memory
Mem == [start |-> startPixel, zero |-> zeroPixel, pix |-> Pix]

\* the pixel a pointer refers to
Deref(m, p) ==
    IF p = StartRef THEN m.start
    ELSE IF p = ZeroRef THEN m.zero
    ELSE m.pix[p[2]]

\* the four assignments p[0] = v[1]; p[1] = v[2]; p[2] = v[3]; p[3] = v[4]
Store(m, p, v) ==
    IF p = StartRef THEN [m EXCEPT !.start = v]
    ELSE IF p = ZeroRef THEN [m EXCEPT !.zero = v]
    ELSE [m EXCEPT !.pix[p[2]] = v]

\* the copy in the wrong direction: src[i] = dst[i]
CopyPixelReversed(m, dst, src) == Store(m, src, Deref(m, dst))

\* dst[0] = src[0]; dst[1] = src[1]; dst[2] = src[2]; dst[3] = src[3]
CopyPixel(m, dst, src) == Store(m, dst, Deref(m, src))

\* -------------------------------------------------------------- the reader
Remaining(p) == Len(stream) - p

\* r.Read(bf[lo : lo+n]) at read position p
Read(bf, lo, n, p) ==
    IF Remaining(p) = 0
    THEN [err |-> ErrEOF, n |-> 0, buf |-> bf, pos |-> p]
    ELSE LET k == Min(n, Remaining(p))
         IN  [err |-> NoErr, n |-> k,
              buf |-> [i \in 0..7 |->
                         IF i >= lo /\ i < lo + k THEN stream[p + (i - lo) + 1]
                         ELSE bf[i]],
              pos |-> p + k]

\* a plain r.Read(b) in place of io.ReadAtLeast: a short read is no error
ReadAtLeastPlainRead(p) ==
    LET k == Min(14, Remaining(p))
    IN  [err |-> IF k = 0 THEN ErrEOF ELSE NoErr,
         n |-> k,
         b |-> [i \in 0..13 |-> IF i < k THEN stream[p + i + 1] ELSE 0],
         pos |-> p + k]

\* a header buffer of 16 bytes in place of 14
ReadAtLeast16(p) ==
    LET k == Min(16, Remaining(p))
    IN  [err |-> IF k >= 14 THEN NoErr
                 ELSE IF k = 0 THEN ErrEOF ELSE ErrUnexpectedEOF,
         n |-> k,
         b |-> [i \in 0..13 |-> IF i < k THEN stream[p + i + 1] ELSE 0],
         pos |-> p + k]

\* io.ReadAtLeast(r, b, 14) into a fresh 14-byte b at read position p
ReadAtLeast(p) ==
    LET k == Min(14, Remaining(p))
    IN  [err |-> IF k >= 14 THEN NoErr
                 ELSE IF k = 0 THEN ErrEOF ELSE ErrUnexpectedEOF,
         n |-> k,
         b |-> [i \in 0..13 |-> IF i < k THEN stream[p + i + 1] ELSE 0],
         pos |-> p + k]

\* binary.BigEndian.Uint32(b[lo : lo+4])
BigEndianUint32(b, lo) ==
    b[lo] * 16777216 + b[lo + 1] * 65536 + b[lo + 2] * 256 + b[lo + 3]

\* a magic check that compares the first three bytes only
MagicMismatchFirst3(b) == << b[0], b[1], b[2] >> # SubSeq(Magic, 1, 3)

\* string(buf[:4]) != Magic
MagicMismatch(b) == << b[0], b[1], b[2], b[3] >> # Magic

\* --------------------------------------------------------------------- Init
ZeroBuf == [i \in 0..7 |-> 0]
NoSeen == [i \in 0..63 |-> ZeroRef]
NoFirst == [err |-> NoErr, ret |-> NilImage, conf |-> ZeroConfig]

\* the state of a call before its first step
StartOfCall ==
    /\ pos = 0
    /\ pc = "start"
    /\ conf = ZeroConfig
    /\ err = NoErr
    /\ ret = NilImage
    /\ Pix = <<>>
    /\ x = 0
    /\ y = 0
    /\ last = StartRef
    /\ buf = ZeroBuf
    /\ run = 0
    /\ seen = NoSeen
    /\ op = "none"
    /\ short = FALSE

\* The package-level pixels. Their values are declared outside decoder.go:
\* (0,0,0,255) and (0,0,0,0), as the data model gives them.
PackageInit ==
    /\ startPixel = <<0, 0, 0, 255>>
    /\ zeroPixel = <<0, 0, 0, 0>>

\* a call on the bytes s that has not started
Context(s) ==
    [stream |-> s, call |-> "Decode", callNo |-> 1, first |-> NoFirst,
     pos |-> 0, pc |-> "start", conf |-> ZeroConfig, err |-> NoErr,
     ret |-> NilImage, Pix |-> <<>>, x |-> 0, y |-> 0, last |-> StartRef,
     buf |-> ZeroBuf, run |-> 0, seen |-> NoSeen, op |-> "none", short |-> FALSE]

\* no concurrent call
NoPeer == [Context(<<>>) EXCEPT !.pc = "absent"]

Init ==
    /\ call \in { "Decode", "DecodeConfig" }
    /\ stream \in IF call = "Decode" THEN DecodeInputs ELSE DecodeConfigInputs
    /\ callNo = 1
    /\ first = NoFirst
    /\ peer = NoPeer
    /\ StartOfCall
    /\ PackageInit

locals == << Pix, x, y, last, buf, run, seen >>
globals == << startPixel, zeroPixel >>
input == << stream, call, callNo, first, peer >>

\* ------------------------------------------------------------- DecodeConfig
\* DecodeConfig, and Decode's use of its result
DecodeConfig ==
    /\ pc = "start"
    /\ LET rd == ReadAtLeast(pos)
       IN  /\ pos' = rd.pos
           /\ short' = (Remaining(pos) < 14)
           /\ op' = "header"
           /\ IF rd.err # NoErr
              THEN /\ conf' = ZeroConfig
                   /\ err' = rd.err
                   /\ pc' = "done"
              ELSE IF MagicMismatch(rd.b)
              THEN /\ conf' = ZeroConfig
                   /\ err' = ErrInvalidMagic
                   /\ pc' = "done"
              ELSE /\ conf' = [Width |-> BigEndianUint32(rd.b, 4),
                               Height |-> BigEndianUint32(rd.b, 8)]
                   /\ err' = NoErr
                   /\ pc' = IF call = "Decode" THEN "init" ELSE "done"
    /\ ret' = NilImage
    /\ UNCHANGED << input, locals, globals >>

\* decodePixels: the image and the locals before the loops
decodePixelsInit ==
    /\ pc = "init"
    /\ Pix' = [i \in 1..(conf.Width * conf.Height) |-> <<0, 0, 0, 0>>]
    /\ last' = StartRef
    /\ buf' = ZeroBuf
    /\ run' = 0
    /\ seen' = NoSeen
    /\ x' = 0
    /\ y' = 0
    /\ pc' = "pixels"
    /\ op' = "init"
    /\ short' = FALSE
    /\ UNCHANGED << input, pos, conf, err, ret, globals >>

\* ------------------------------------------------------------ decodePixels
Width == conf.Width
Height == conf.Height

\* the loop conditions y < conf.Height and x < conf.Width
InLoop == pc = "pixels" /\ y < Height /\ x < Width

\* pix: the pointer to the pixel at img.PixOffset(x, y)
pix == PixRef(y * Width + x + 1)

\* x++, and y++ with x = 0 at the end of a row
NextXY ==
    /\ x' = IF x + 1 < Width THEN x + 1 ELSE 0
    /\ y' = IF x + 1 < Width THEN y ELSE y + 1

\* return img, e: the partly filled image goes out with the error
ReturnErrWithImage(e) ==
    /\ err' = e
    /\ ret' = [nil |-> FALSE, Width |-> conf.Width, Height |-> conf.Height, Pix |-> Pix]
    /\ pc' = "done"

\* return nil, e
ReturnErr(e) ==
    /\ err' = e
    /\ ret' = NilImage
    /\ pc' = "done"

\* the writes of one loop iteration to memory reachable through pointers
SetMem(m) ==
    /\ Pix' = m.pix
    /\ startPixel' = m.start
    /\ zeroPixel' = m.zero

\* a cache store that hashes the pixel before it is written
SeenUpdateBeforeWrite(m, p) == [seen EXCEPT ![hashPix(Deref(Mem, p))] = p]

\* seen[hashPix(pix)] = pix, in the memory m the writes to pix have produced
SeenUpdate(m, p) == [seen EXCEPT ![hashPix(Deref(m, p))] = p]

\* the read of the op-code byte
ReadOp == Read(buf, 0, 1, pos)

\* a run iteration placed after the read of the op-code byte
RunIterationReading ==
    /\ InLoop
    /\ run > 0
    /\ run' = run - 1
    /\ SetMem(CopyPixel(Mem, pix, last))
    /\ NextXY
    /\ op' = "run"
    /\ short' = FALSE
    /\ pos' = ReadOp.pos
    /\ buf' = ReadOp.buf
    /\ UNCHANGED << input, pc, conf, err, ret, last, seen >>

\* if run > 0: a further iteration of a run
RunIteration ==
    /\ InLoop
    /\ run > 0
    /\ run' = run - 1
    /\ SetMem(CopyPixel(Mem, pix, last))
    /\ NextXY
    /\ op' = "run"
    /\ short' = FALSE
    /\ UNCHANGED << input, pos, pc, conf, err, ret, last, buf, seen >>

\* the read of the op-code byte fails
ReadOpFail ==
    /\ InLoop
    /\ run = 0
    /\ ReadOp.err # NoErr
    /\ ReturnErr(ReadOp.err)
    /\ op' = "opcode"
    /\ short' = TRUE
    /\ UNCHANGED << input, pos, conf, locals, globals >>

\* case buf[0] == opRgb
OpRgb ==
    /\ InLoop
    /\ run = 0
    /\ ReadOp.err = NoErr
    /\ ReadOp.buf[0] = opRgb
    /\ LET rd == Read(ReadOp.buf, 1, 3, ReadOp.pos)
           b == rd.buf
           m == Store(Mem, pix, << b[1], b[2], b[3], Deref(Mem, last)[4] >>)
       IN  /\ op' = "RGB"
           /\ short' = (Remaining(ReadOp.pos) < 3)
           /\ buf' = b
           /\ pos' = rd.pos
           /\ IF rd.err # NoErr
              THEN /\ ReturnErr(rd.err)
                   /\ UNCHANGED << Pix, x, y, last, run, seen, globals >>
              ELSE /\ SetMem(m)
                   /\ seen' = SeenUpdate(m, pix)
                   /\ last' = pix
                   /\ NextXY
                   /\ UNCHANGED << pc, err, ret, run >>
    /\ UNCHANGED << input, conf >>

\* case buf[0] == opRgba
OpRgba ==
    /\ InLoop
    /\ run = 0
    /\ ReadOp.err = NoErr
    /\ ReadOp.buf[0] # opRgb
    /\ ReadOp.buf[0] = opRgba
    /\ LET rd == Read(ReadOp.buf, 1, 4, ReadOp.pos)
           b == rd.buf
           m == Store(Mem, pix, << b[1], b[2], b[3], b[4] >>)
       IN  /\ op' = "RGBA"
           /\ short' = (Remaining(ReadOp.pos) < 4)
           /\ buf' = b
           /\ pos' = rd.pos
           /\ IF rd.err # NoErr
              THEN /\ ReturnErr(rd.err)
                   /\ UNCHANGED << Pix, x, y, last, run, seen, globals >>
              ELSE /\ SetMem(m)
                   /\ seen' = SeenUpdate(m, pix)
                   /\ last' = pix
                   /\ NextXY
                   /\ UNCHANGED << pc, err, ret, run >>
    /\ UNCHANGED << input, conf >>

\* the tag shifted down, buf[0] >> 6, compared with the unshifted tags
TagShifted(b) == b \div 64

\* buf[0] & op2Mask
Tag(b) == (b \div 64) * 64

\* a dispatch on the two-bit tag that does not try the 8-bit tags first
TwoBitTagFirst(t) ==
    /\ InLoop
    /\ run = 0
    /\ ReadOp.err = NoErr
    /\ Tag(ReadOp.buf[0]) = t

\* neither of the two 8-bit tags matched
TwoBitTag(t) ==
    /\ InLoop
    /\ run = 0
    /\ ReadOp.err = NoErr
    /\ ReadOp.buf[0] # opRgb
    /\ ReadOp.buf[0] # opRgba
    /\ Tag(ReadOp.buf[0]) = t

\* an INDEX case that stores its pixel in the cache, as the other cases do
OpIndexCaching ==
    /\ TwoBitTag(opIndex)
    /\ LET b == ReadOp.buf
           s == seen[b[0]]
           m == CopyPixel(Mem, pix, s)
       IN  /\ op' = "INDEX"
           /\ short' = FALSE
           /\ buf' = b
           /\ pos' = ReadOp.pos
           /\ SetMem(m)
           /\ seen' = SeenUpdate(m, pix)
           /\ last' = pix
           /\ NextXY
    /\ UNCHANGED << input, pc, conf, err, ret, run >>

\* an INDEX case without last = pix
OpIndexKeepsLast ==
    /\ TwoBitTag(opIndex)
    /\ LET b == ReadOp.buf
           s == seen[b[0]]
       IN  /\ op' = "INDEX"
           /\ short' = FALSE
           /\ buf' = b
           /\ pos' = ReadOp.pos
           /\ SetMem(CopyPixel(Mem, pix, s))
           /\ NextXY
    /\ UNCHANGED << input, pc, conf, err, ret, run, seen, last >>

\* case buf[0]&op2Mask == opIndex
OpIndex ==
    /\ TwoBitTag(opIndex)
    /\ LET b == ReadOp.buf
           s == seen[b[0]]
       IN  /\ op' = "INDEX"
           /\ short' = FALSE
           /\ buf' = b
           /\ pos' = ReadOp.pos
           /\ SetMem(CopyPixel(Mem, pix, s))
           /\ last' = pix
           /\ NextXY
    /\ UNCHANGED << input, pc, conf, err, ret, run, seen >>

\* a DIFF that adds the two-bit field without its bias of 2
DiffChannelNoBias(v, b, shift) == U8(v + ((b \div shift) % 4))

\* last[c] + (buf[0]>>shift)&0x3 - 2, in uint8
DiffChannel(v, b, shift) == U8(U8(v + ((b \div shift) % 4)) - 2)

\* case buf[0]&op2Mask == opDiff
OpDiff ==
    /\ TwoBitTag(opDiff)
    /\ LET b == ReadOp.buf
           l == Deref(Mem, last)
           m == Store(Mem, pix, << DiffChannel(l[1], b[0], 16),
                                   DiffChannel(l[2], b[0], 4),
                                   DiffChannel(l[3], b[0], 1),
                                   l[4] >>)
       IN  /\ op' = "DIFF"
           /\ short' = FALSE
           /\ buf' = b
           /\ pos' = ReadOp.pos
           /\ SetMem(m)
           /\ seen' = SeenUpdate(m, pix)
           /\ last' = pix
           /\ NextXY
    /\ UNCHANGED << input, pc, conf, err, ret, run >>

\* dg := (buf[0] & 0b00111111) - 32
LumaDg(b0) == U8((b0 % 64) - 32)
\* a dr without the green difference
LumaDrNoGreen(b0, b1) == U8((((b1 \div 16) * 16) \div 16) - 8)
\* dr := (buf[1]&0b11110000)>>4 - 8 + dg
LumaDr(b0, b1) == U8(U8((((b1 \div 16) * 16) \div 16) - 8) + LumaDg(b0))
\* db := (buf[1]&0b00001111)>>0 - 8 + dg
LumaDb(b0, b1) == U8(U8((b1 % 16) - 8) + LumaDg(b0))

\* case buf[0]&op2Mask == opLuma
OpLuma ==
    /\ TwoBitTag(opLuma)
    /\ LET rd == Read(ReadOp.buf, 1, 1, ReadOp.pos)
           b == rd.buf
           l == Deref(Mem, last)
           m == Store(Mem, pix, << U8(l[1] + LumaDr(b[0], b[1])),
                                   U8(l[2] + LumaDg(b[0])),
                                   U8(l[3] + LumaDb(b[0], b[1])),
                                   l[4] >>)
       IN  /\ op' = "LUMA"
           /\ short' = (Remaining(ReadOp.pos) < 1)
           /\ buf' = b
           /\ pos' = rd.pos
           /\ IF rd.err # NoErr
              THEN /\ ReturnErr(rd.err)
                   /\ UNCHANGED << Pix, x, y, last, run, seen, globals >>
              ELSE /\ SetMem(m)
                   /\ seen' = SeenUpdate(m, pix)
                   /\ last' = pix
                   /\ NextXY
                   /\ UNCHANGED << pc, err, ret, run >>
    /\ UNCHANGED << input, conf >>

\* a run length without the bias of 1
RunLengthNoBias(b0) == U8(b0 % 64)

\* run = buf[0]&0b00111111 + 1
RunLength(b0) == U8((b0 % 64) + 1)

\* no case of the switch matches the op-code byte
NoCaseMatches ==
    /\ InLoop
    /\ run = 0
    /\ ReadOp.err = NoErr
    /\ ReadOp.buf[0] # opRgb
    /\ ReadOp.buf[0] # opRgba
    /\ Tag(ReadOp.buf[0]) \notin { opIndex, opDiff, opLuma, opRun }

\* case buf[0]&op2Mask == opRun, the last case of the switch; the switch has
\* no default, so a byte that matches no case leaves the pixel as it is
OpRun ==
    /\ TwoBitTag(opRun) \/ NoCaseMatches
    /\ LET b == ReadOp.buf
           n == RunLength(b[0])
       IN  /\ short' = FALSE
           /\ buf' = b
           /\ pos' = ReadOp.pos
           /\ IF ~TwoBitTag(opRun)
              THEN /\ op' = "nomatch"
                   /\ NextXY
                   /\ UNCHANGED << pc, err, ret, run, Pix, globals >>
              ELSE /\ op' = "RUN"
                   /\ IF n > 62 \/ n < 1
                      THEN /\ run' = n
                           /\ ReturnErr(ErrInvalidRunLength)
                           /\ UNCHANGED << Pix, x, y, globals >>
                      ELSE /\ run' = n - 1
                           /\ SetMem(CopyPixel(Mem, pix, last))
                           /\ NextXY
                           /\ UNCHANGED << pc, err, ret >>
    /\ UNCHANGED << input, conf, last, seen >>

\* a comparison that stops one byte early
BytesEqualButLast(a, b) == \A i \in 0..6 : a[i] = b[i]

\* bytes.Equal(buf, eof[:])
BytesEqual(a, b) == \A i \in 0..7 : a[i] = b[i]

\* return img, nil
ReturnImg ==
    /\ err' = NoErr
    /\ ret' = [nil |-> FALSE, Width |-> Width, Height |-> Height, Pix |-> Pix]
    /\ pc' = "done"

\* an end-marker check that rejects a run that is not used up
CheckEOFStrictRun ==
    /\ pc = "pixels"
    /\ ~InLoop
    /\ LET rd == Read(buf, 0, 8, pos)
       IN  /\ op' = "eof"
           /\ short' = (Remaining(pos) < 8)
           /\ buf' = rd.buf
           /\ pos' = rd.pos
           /\ IF run > 0
              THEN ReturnErr(ErrInvalidRunLength)
              ELSE IF rd.err # NoErr
              THEN ReturnErr(rd.err)
              ELSE IF ~BytesEqual(rd.buf, eof)
              THEN ReturnErr(ErrInvalidEOF)
              ELSE ReturnImg
    /\ UNCHANGED << input, conf, Pix, x, y, last, run, seen, globals >>

\* check EOF sequence, after the loops
CheckEOF ==
    /\ pc = "pixels"
    /\ ~InLoop
    /\ LET rd == Read(buf, 0, 8, pos)
       IN  /\ op' = "eof"
           /\ short' = (Remaining(pos) < 8)
           /\ buf' = rd.buf
           /\ pos' = rd.pos
           /\ IF rd.err # NoErr
              THEN ReturnErr(rd.err)
              ELSE IF ~BytesEqual(rd.buf, eof)
              THEN ReturnErr(ErrInvalidEOF)
              ELSE ReturnImg
    /\ UNCHANGED << input, conf, Pix, x, y, last, run, seen, globals >>

\* the caller makes the same call again, on a fresh reader over the same bytes
SecondCall ==
    /\ pc = "done"
    /\ callNo = 1
    /\ callNo' = 2
    /\ first' = [err |-> err, ret |-> ret, conf |-> conf]
    /\ pos' = 0
    /\ pc' = "start"
    /\ conf' = ZeroConfig
    /\ err' = NoErr
    /\ ret' = NilImage
    /\ Pix' = <<>>
    /\ x' = 0
    /\ y' = 0
    /\ last' = StartRef
    /\ buf' = ZeroBuf
    /\ run' = 0
    /\ seen' = NoSeen
    /\ op' = "none"
    /\ short' = FALSE
    /\ UNCHANGED << stream, call, peer, globals >>

\* the scheduler runs the other of two concurrent calls: the locals and the
\* source of the running call are put aside and the other call's are taken up;
\* startPixel and zeroPixel are the memory the two calls share. Each source is
\* first decoded alone (callNo = 1, while the other call has not begun its
\* second decode) and then again (callNo = 2), interleaved with the other.
Switch ==
    /\ callNo = 2
    /\ peer.pc \notin { "absent", "done" }
    /\ peer.callNo = 1 => pc = "start"
    /\ peer' = [stream |-> stream, call |-> call, callNo |-> callNo,
                first |-> first, pos |-> pos, pc |-> pc, conf |-> conf,
                err |-> err, ret |-> ret, Pix |-> Pix, x |-> x, y |-> y,
                last |-> last, buf |-> buf, run |-> run, seen |-> seen,
                op |-> op, short |-> short]
    /\ stream' = peer.stream
    /\ call' = peer.call
    /\ callNo' = peer.callNo
    /\ first' = peer.first
    /\ pos' = peer.pos
    /\ pc' = peer.pc
    /\ conf' = peer.conf
    /\ err' = peer.err
    /\ ret' = peer.ret
    /\ Pix' = peer.Pix
    /\ x' = peer.x
    /\ y' = peer.y
    /\ last' = peer.last
    /\ buf' = peer.buf
    /\ run' = peer.run
    /\ seen' = peer.seen
    /\ op' = peer.op
    /\ short' = peer.short
    /\ UNCHANGED globals

Step ==
    \/ DecodeConfig
    \/ decodePixelsInit
    \/ RunIteration
    \/ ReadOpFail
    \/ OpRgb
    \/ OpRgba
    \/ OpIndex
    \/ OpDiff
    \/ OpLuma
    \/ OpRun
    \/ CheckEOF

\* one call
Next == Step
Spec == Init /\ [][Next]_vars

\* two calls, one after the other, on the same bytes
NextTwice == Step \/ SecondCall
SpecTwice == Init /\ [][NextTwice]_vars

\* the byte sources of two concurrent calls of Decode
ConcInputs ==
    { SmallHeader(2, 2) \o <<193, 255, 10, 20, 30, 255, 9>> \o EofMarker,
      SmallHeader(2, 1) \o <<254, 1, 2, 1, 114>> \o EofMarker,
      SmallHeader(1, 2) \o <<128, 7, 9>> \o <<0, 0, 0, 0, 0, 0, 0, 2>>,
      SmallHeader(2, 1) \o <<9>>,
      <<113, 111, 105, 120>> }

InitConc ==
    /\ call = "Decode"
    /\ stream \in ConcInputs
    /\ callNo = 1
    /\ first = NoFirst
    /\ peer \in { Context(s) : s \in ConcInputs }
    /\ StartOfCall
    /\ PackageInit

\* two calls of Decode, each on its own source: each is first run alone and
\* then again, its steps interleaved with the other's
NextConc == Step \/ SecondCall \/ Switch
SpecConc == InitConc /\ [][NextConc]_vars

\* the byte sources of the op-code sweep: a 3x1 image whose first pixel is an
\* RGBA record (v, v+1, v+2, v+3), then every byte value as the second op-code
\* followed by one more byte and the end marker, or by nothing
SweepValues == { 0, 1, 127, 128, 253, 254, 255 }
SweepSeconds == { 0, 15, 120, 128, 135, 240, 255 }
SweepPixel(v) == << v, U8(v + 1), U8(v + 2), U8(v + 3) >>
ByteInputs ==
    { SmallHeader(3, 1) \o <<opRgba>> \o SweepPixel(v) \o <<b0, b1>> \o EofMarker :
          v \in SweepValues, b0 \in 0..255, b1 \in SweepSeconds }
    \cup { SmallHeader(3, 1) \o <<opRgba>> \o SweepPixel(v) \o <<b0>> :
              v \in { 254 }, b0 \in 0..255 }

InitBytes ==
    /\ call = "Decode"
    /\ stream \in ByteInputs
    /\ callNo = 1
    /\ first = NoFirst
    /\ peer = NoPeer
    /\ StartOfCall
    /\ PackageInit

NextBytes == Step
SpecBytes == InitBytes /\ [][NextBytes]_vars

\* ======================================================================
\* Properties
\* ======================================================================

\* the error kind UnexpectedEnd: the source was exhausted before a required
\* read completed (Go reports it as io.EOF or io.ErrUnexpectedEOF)
UnexpectedEnd == { ErrEOF, ErrUnexpectedEOF }

\* the steps that dispatched an op-code byte; buf[0] is that byte
DispatchOps == { "RGB", "RGBA", "INDEX", "DIFF", "LUMA", "RUN" }

Returned == pc = "done"

\* ---------------------------------------------------- reference decoder
\* The op-code table, with pixels, the last pixel and the 64 cache slots held
\* by value and the deltas computed on signed integers.
RefWidth(s) == ((s[5] * 256 + s[6]) * 256 + s[7]) * 256 + s[8]
RefHeight(s) == ((s[9] * 256 + s[10]) * 256 + s[11]) * 256 + s[12]
RefHash(p) == (3 * p[1] + 5 * p[2] + 7 * p[3] + 11 * p[4]) % 64
RefStart ==
    [ok |-> TRUE, p |-> 14, last |-> <<0, 0, 0, 255>>, run |-> 0,
     cache |-> [k \in 0..63 |-> <<0, 0, 0, 0>>], out |-> <<>>]

\* the number of bytes that follow op-code byte b
RefExtra(b) ==
    IF b = 254 THEN 3 ELSE IF b = 255 THEN 4 ELSE IF b \div 64 = 2 THEN 1 ELSE 0

\* the pixel of the op whose bytes start at s[q], after last pixel l
RefPixel(s, q, l, cache) ==
    LET b == s[q]
    IN  IF b = 254 THEN << s[q + 1], s[q + 2], s[q + 3], l[4] >>
        ELSE IF b = 255 THEN << s[q + 1], s[q + 2], s[q + 3], s[q + 4] >>
        ELSE IF b \div 64 = 0 THEN cache[b % 64]
        ELSE IF b \div 64 = 1
        THEN << (l[1] + ((b \div 16) % 4) - 2) % 256,
                (l[2] + ((b \div 4) % 4) - 2) % 256,
                (l[3] + (b % 4) - 2) % 256,
                l[4] >>
        ELSE IF b \div 64 = 2
        THEN LET dg == (b % 64) - 32
                 dr == (s[q + 1] \div 16) - 8 + dg
                 db == (s[q + 1] % 16) - 8 + dg
             IN  << (l[1] + dr) % 256, (l[2] + dg) % 256, (l[3] + db) % 256, l[4] >>
        ELSE l

RECURSIVE RefDecode(_, _, _)
\* n more pixels decoded from stream s in reference state st
RefDecode(s, st, n) ==
    IF n = 0 \/ ~st.ok THEN st
    ELSE IF st.run > 0
    THEN RefDecode(s, [st EXCEPT !.run = @ - 1, !.out = Append(@, st.last)], n - 1)
    ELSE IF Len(s) - st.p < 1 \/ Len(s) - st.p - 1 < RefExtra(s[st.p + 1])
    THEN [st EXCEPT !.ok = FALSE]
    ELSE LET b == s[st.p + 1]
             px == RefPixel(s, st.p + 1, st.last, st.cache)
             isRun == b \div 64 = 3 /\ b # 254 /\ b # 255
             isIndex == b \div 64 = 0
         IN  IF isRun /\ ((b % 64) + 1 > 62)
             THEN [st EXCEPT !.ok = FALSE]
             ELSE RefDecode(s,
                    [ok |-> TRUE,
                     p |-> st.p + 1 + RefExtra(b),
                     last |-> px,
                     run |-> IF isRun THEN b % 64 ELSE 0,
                     cache |-> IF isRun \/ isIndex THEN st.cache
                               ELSE [st.cache EXCEPT ![RefHash(px)] = px],
                     out |-> Append(st.out, px)],
                    n - 1)

RefResult(s) == RefDecode(s, RefStart, RefWidth(s) * RefHeight(s))

\* a valid header, a well-formed op-code stream that supplies all required
\* bytes, and then the end marker
WellFormed(s) ==
    /\ Len(s) >= 14
    /\ SubSeq(s, 1, 4) = Magic
    /\ RefResult(s).ok
    /\ Len(s) >= RefResult(s).p + 8
    /\ SubSeq(s, RefResult(s).p + 1, RefResult(s).p + 8) = EofMarker

ExampleStream == SmallHeader(1, 1) \o <<255, 10, 20, 30, 255>> \o EofMarker

\* C1: for every well-formed stream Decode succeeds and returns exactly
\* width*height pixels, each equal to the pixel the reference decoder computes
\* from the op-code table; the 1x1 image 0xFF,10,20,30,255 decodes to the
\* pixel (10,20,30,255).
C1_DecodeMatchesReference ==
    (call = "Decode" /\ Returned /\ WellFormed(stream)) =>
        /\ err = NoErr
        /\ ~ret.nil
        /\ Len(ret.Pix) = RefWidth(stream) * RefHeight(stream)
        /\ ret.Width = RefWidth(stream)
        /\ ret.Height = RefHeight(stream)
        /\ ret.Pix = RefResult(stream).out
        /\ (stream = ExampleStream => ret.Pix = << <<10, 20, 30, 255>> >>)

\* a well-formed 2x2 image has been decoded, through at least three
\* different kinds of step
C1_Witness ==
    /\ call = "Decode"
    /\ Returned
    /\ WellFormed(stream)
    /\ Len(ret.Pix) = 4
    /\ Cardinality({ ret.Pix[i] : i \in 1..4 }) >= 3

\* C2 (as claimed): a read in the pixel stage that the source cannot fully
\* supply makes Decode fail with UnexpectedEnd at that read, and no pixel is
\* produced from it.
C2_ShortReadFailsAtOnce ==
    (op \in { "opcode", "RGB", "RGBA", "LUMA" } /\ short) =>
        (Returned /\ err \in UnexpectedEnd /\ ret = NilImage)

\* C3 (as claimed): an op-code byte with top two bits 11 and low six bits 63
\* makes Decode fail with InvalidRunLength.
C3_RunLength64Fails ==
    (op \in DispatchOps /\ buf[0] \div 64 = 3 /\ buf[0] % 64 = 63) =>
        (Returned /\ err = ErrInvalidRunLength)

\* C3 (amended): an op-code byte with top two bits 11 and low six bits 63 is
\* the byte 0xFF; it is dispatched as RGBA, never as RUN, and Decode does not
\* fail with InvalidRunLength on it.
C3_ByteFFIsRgba ==
    (op \in DispatchOps /\ buf[0] \div 64 = 3 /\ buf[0] % 64 = 63) =>
        (op = "RGBA" /\ err # ErrInvalidRunLength /\ run = 0)

\* the byte 0xFF was dispatched and its pixel produced
C3_Witness ==
    /\ op = "RGBA"
    /\ buf[0] = 255
    /\ ~short
    /\ pc = "pixels"
    /\ Deref(Mem, last) = <<10, 20, 30, 255>>

\* C4: Decode succeeds only if the 8 bytes read after the last pixel are the
\* end marker; when 8 bytes are there and differ from it, Decode fails with
\* InvalidEOF.
C4_EndMarkerDecides ==
    /\ (call = "Decode" /\ Returned /\ err = NoErr) =>
           /\ op = "eof"
           /\ ~short
           /\ pos >= 22
           /\ SubSeq(stream, pos - 7, pos) = EofMarker
    /\ (Returned /\ op = "eof" /\ ~short /\ SubSeq(stream, pos - 7, pos) # EofMarker) =>
           (err = ErrInvalidEOF /\ ret = NilImage)

\* every pixel was decoded as the reference decodes it, and the marker's last
\* byte is 0x02
C4_Witness ==
    /\ Returned
    /\ op = "eof"
    /\ ~short
    /\ err = ErrInvalidEOF
    /\ stream[pos] = 2
    /\ SubSeq(stream, pos - 7, pos - 1) = <<0, 0, 0, 0, 0, 0, 0>>
    /\ Len(Pix) >= 2
    /\ RefResult(stream).ok
    /\ Pix = RefResult(stream).out

\* C5 (as claimed): with fewer than 8 bytes left after the last pixel, Decode
\* fails with UnexpectedEnd.
C5_ShortEndMarkerIsUnexpectedEnd ==
    (op = "eof" /\ short) => (Returned /\ err \in UnexpectedEnd)

\* C6: a failing Decode returns an error and no image, however many pixels it
\* had written; an image is returned only with a nil error.
C6_AllOrNothing ==
    /\ ~ret.nil => (Returned /\ err = NoErr /\ call = "Decode")
    /\ (Returned /\ err # NoErr) => ret = NilImage
    /\ (Returned /\ call = "Decode" /\ err = NoErr) =>
           (~ret.nil /\ ret.Pix = Pix /\ Len(ret.Pix) = ret.Width * ret.Height)

\* Decode failed after it had written some pixels of the image, not all
C6_Witness ==
    /\ Returned
    /\ err # NoErr
    /\ ret = NilImage
    /\ Len(Pix) = 4
    /\ Pix[1] # <<0, 0, 0, 0>>
    /\ y * Width + x \in 1..3

\* C7: with 14 bytes or more and a first four bytes other than "qoif",
\* DecodeConfig and Decode fail with InvalidMagic and produce no width, height
\* or pixel; with the magic right, no other header byte makes the header fail.
C7_OnlyMagicValidated ==
    /\ (Returned /\ Len(stream) >= 14 /\ SubSeq(stream, 1, 4) # Magic) =>
           /\ err = ErrInvalidMagic
           /\ conf = ZeroConfig
           /\ ret = NilImage
           /\ Pix = <<>>
           /\ op = "header"
    /\ (op = "header" /\ Len(stream) >= 14 /\ SubSeq(stream, 1, 4) = Magic) =>
           err = NoErr

\* Decode was given "qoix", a valid rest of the header and a valid image
C7_Witness ==
    /\ call = "Decode"
    /\ Returned
    /\ err = ErrInvalidMagic
    /\ SubSeq(stream, 1, 4) = <<113, 111, 105, 120>>
    /\ Len(stream) > 14

\* C8: with fewer than 14 bytes DecodeConfig and Decode fail with
\* UnexpectedEnd, whatever the first bytes are.
C8_ShortHeader ==
    (Returned /\ Len(stream) < 14) =>
        /\ err \in UnexpectedEnd
        /\ (err = ErrEOF <=> Len(stream) = 0)
        /\ conf = ZeroConfig
        /\ ret = NilImage
        /\ op = "header"

\* 13 bytes that do not start with "qoif"
C8_Witness ==
    /\ Returned
    /\ Len(stream) = 13
    /\ SubSeq(stream, 1, 4) # Magic
    /\ err = ErrUnexpectedEOF

\* C9: a successful DecodeConfig leaves the source 14 bytes further, with width
\* and height the big-endian values of bytes 4-7 and 8-11; the first op-code
\* byte Decode dispatches is the byte after the header.
C9_HeaderConsumes14 ==
    /\ (op = "header" /\ err = NoErr) =>
           /\ pos = 14
           /\ conf = [Width |-> RefWidth(stream), Height |-> RefHeight(stream)]
    /\ op = "init" => pos = 14
    /\ (op \in DispatchOps /\ \/ (pc = "pixels" /\ y * Width + x = 1)
                              \/ (pc = "done" /\ y * Width + x = 0)) =>
           buf[0] = stream[15]

\* DecodeConfig succeeded on a header of width 258 that more bytes follow
C9_Witness ==
    /\ call = "DecodeConfig"
    /\ Returned
    /\ err = NoErr
    /\ conf.Width = 258
    /\ conf.Height = 458752
    /\ Len(stream) > 14

\* C10: the package-level start pixel and zero pixel keep their values, and a
\* second call on the same bytes returns what the first call returned.
C10_SecondCallSame ==
    /\ startPixel = <<0, 0, 0, 255>>
    /\ zeroPixel = <<0, 0, 0, 0>>
    /\ (callNo = 2 /\ Returned) => first = [err |-> err, ret |-> ret, conf |-> conf]

\* the second call returned an image of four pixels, decoded with a run that
\* starts at the start pixel and with the cache in use
C10_Witness ==
    /\ callNo = 2
    /\ Returned
    /\ ~ret.nil
    /\ Len(ret.Pix) = 4
    /\ ret.Pix[1] = <<0, 0, 0, 255>>
    /\ \E k \in 0..63 : seen[k] # ZeroRef

\* ------------------------------------------------------- positions, values
\* the number of pixel positions processed so far, which is also the
\* row-major number (from 1) of the position processed last
Idx == y * Width + x

\* the value at position j, and the start value before the first position
PrevPixel(j) == IF j = 0 THEN <<0, 0, 0, 255>> ELSE Pix[j]

\* the values the 64 cache slots refer to
CacheValues == [k \in 0..63 |-> Deref(Mem, seen[k])]

\* the reference decoder after j pixels
RefAt(j) == RefDecode(stream, RefStart, j)

\* C11: two concurrent calls of Decode, each on its own source, return what
\* they return when run alone, under every interleaving of their steps, and
\* no step writes the memory they share (the start pixel and the zero pixel).
C11_ConcurrentCallsIndependent ==
    /\ startPixel = <<0, 0, 0, 255>>
    /\ zeroPixel = <<0, 0, 0, 0>>
    /\ (callNo = 2 /\ Returned) => first = [err |-> err, ret |-> ret, conf |-> conf]
    /\ (peer.callNo = 2 /\ peer.pc = "done") =>
           peer.first = [err |-> peer.err, ret |-> peer.ret, conf |-> peer.conf]

\* both calls are in the middle of their pixel loops, on different sources,
\* one of them in a run that started at the start pixel
C11_Witness ==
    /\ callNo = 2
    /\ peer.callNo = 2
    /\ pc = "pixels"
    /\ peer.pc = "pixels"
    /\ stream # peer.stream
    /\ Idx \in 1..3
    /\ peer.x + peer.y > 0
    /\ last = StartRef
    /\ run > 0

\* C12: at a pixel position with run > 0 the last pixel's value is written,
\* run goes down by 1 and no byte is consumed, with the last pixel and the 64
\* cache slots as they were; with run = 0 an op-code byte is read and
\* dispatched (or the read fails); never both.
C12_RunOrOpcode ==
    [][ (pc = "pixels" /\ InLoop) =>
          IF run > 0
          THEN /\ op' = "run"
               /\ run' = run - 1
               /\ pos' = pos
               /\ buf' = buf
               /\ pc' = "pixels"
               /\ Idx' = Idx + 1
               /\ Pix'[Idx + 1] = Deref(Mem, last)
               /\ Deref(Mem', last') = Deref(Mem, last)
               /\ CacheValues' = CacheValues
          ELSE /\ op' # "run"
               /\ IF Remaining(pos) = 0
                  THEN op' = "opcode" /\ pos' = pos /\ err' = ErrEOF /\ pc' = "done"
                  ELSE /\ op' \in DispatchOps
                       /\ buf'[0] = stream[pos + 1]
                       /\ pos' >= pos + 1
                       /\ pos' <= pos + 1 + RefExtra(stream[pos + 1]) ]_vars

\* a run iteration has just been made, with bytes left in the source
C12_Witness ==
    /\ op = "run"
    /\ pc = "pixels"
    /\ run = 0
    /\ Remaining(pos) > 0
    /\ Idx = 2
    /\ Pix[2] = <<0, 0, 0, 255>>

\* the state of a run: buf[0] still holds the RUN byte, the source stands
\* right after it, and every position of the run so far has the value of the
\* position before the run
RunState ==
    (op \in { "RUN", "run" } /\ pc = "pixels") =>
        LET n == buf[0] % 64
            s == Idx - (n - run)
        IN  /\ s >= 1
            /\ n <= 61
            /\ stream[pos] = buf[0]
            /\ \A j \in s..Idx : Pix[j] = PrevPixel(s - 1)

\* C13: a RUN byte with low six bits n consumes one byte and gives the value
\* of the pixel before it to the current position and to the next n, across
\* rows, as far as positions remain; no byte is read before the run is used up.
C13_RunCovers ==
    [][ /\ (pc = "pixels" /\ InLoop /\ op' = "RUN" /\ pc' = "pixels") =>
               /\ pos' = pos + 1
               /\ run' = stream[pos + 1] % 64
               /\ Pix'[Idx + 1] = PrevPixel(Idx)
        /\ (pc = "pixels" /\ InLoop /\ run > 0) =>
               /\ pos' = pos
               /\ run' = run - 1
               /\ Pix'[Idx + 1] = PrevPixel(Idx)
        /\ (pc = "pixels" /\ InLoop /\ pos' > pos) => run = 0
        /\ (pc = "pixels" /\ InLoop /\ run = 0) => op' # "run"
        /\ RunState' ]_vars

\* a run of 2 after a decoded pixel, from the end of row 0 into row 1, used up
C13_Witness ==
    /\ Width = 2
    /\ Height = 2
    /\ pc = "pixels"
    /\ op = "run"
    /\ run = 0
    /\ buf[0] = 193
    /\ Idx = 3
    /\ Pix[1] # <<0, 0, 0, 255>>
    /\ Pix[2] = Pix[1]
    /\ Pix[3] = Pix[1]

\* C14: the cache slots refer, by value, to what the op-code table's cache
\* holds (the most recent RGB, RGBA, DIFF or LUMA pixel of that hash, or the
\* zero pixel), and an INDEX op yields the value of its slot.
C14_IndexReadsCache ==
    (call = "Decode" /\ pc \in { "pixels", "done" } /\ op # "header"
       /\ RefAt(Idx).ok) =>
        /\ CacheValues = RefAt(Idx).cache
        /\ (op = "INDEX" /\ Idx >= 1) => Pix[Idx] = RefAt(Idx - 1).cache[buf[0]]

\* INDEX 9 yields a pixel that took slot 9 over from another pixel
C14_Witness ==
    /\ op = "INDEX"
    /\ buf[0] = 9
    /\ Idx = 3
    /\ Pix[1] = <<10, 20, 30, 255>>
    /\ Pix[2] # Pix[1]
    /\ Pix[3] = Pix[2]
    /\ RefHash(Pix[2]) = 9
    /\ RefAt(3).ok

\* C15: INDEX, RUN and a run iteration leave the 64 cache slots as they are;
\* RGB, RGBA, DIFF and LUMA store one slot, the one at the hash of the new
\* pixel, and leave the other 63.
C15_CacheFrame ==
    [][ (pc = "pixels" /\ InLoop) =>
          IF pc' = "done" \/ op' \in { "INDEX", "RUN", "run" }
          THEN seen' = seen /\ CacheValues' = CacheValues
          ELSE /\ op' \in { "RGB", "RGBA", "DIFF", "LUMA" }
               /\ seen'[RefHash(Pix'[Idx + 1])] = PixRef(Idx + 1)
               /\ Cardinality({ k \in 0..63 : seen'[k] # seen[k] }) = 1
               /\ \A k \in 0..63 : k # RefHash(Pix'[Idx + 1]) =>
                      CacheValues'[k] = CacheValues[k] ]_vars

\* an INDEX op has read the zero pixel while another slot is in use
C15_Witness ==
    /\ op = "INDEX"
    /\ pc = "pixels"
    /\ Idx = 2
    /\ Pix[2] = <<0, 0, 0, 0>>
    /\ Cardinality({ k \in 0..63 : seen[k] # ZeroRef }) = 1

\* C16: the last pixel is (0,0,0,255) before the first position and the value
\* of the position processed last after that; RGB, DIFF and LUMA take their
\* alpha, and DIFF and LUMA their base colour, from that position.
C16_LastIsPrevious ==
    (call = "Decode" /\ pc \in { "pixels", "done" } /\ op # "header") =>
        /\ Deref(Mem, last) = PrevPixel(Idx)
        /\ (op \in { "RGB", "DIFF", "LUMA" } /\ pc = "pixels") =>
               Pix[Idx][4] = PrevPixel(Idx - 1)[4]
        /\ (op = "DIFF" /\ pc = "pixels") =>
               Pix[Idx] = RefPixel(stream, pos, PrevPixel(Idx - 1), CacheValues)
        /\ (op = "LUMA" /\ pc = "pixels") =>
               Pix[Idx] = RefPixel(stream, pos - 1, PrevPixel(Idx - 1), CacheValues)

\* an RGB op after an INDEX op that read the zero pixel: alpha 0
C16_Witness ==
    /\ op = "RGB"
    /\ pc = "pixels"
    /\ Idx >= 2
    /\ Pix[Idx - 1] = <<0, 0, 0, 0>>
    /\ Pix[Idx] = <<1, 2, 1, 0>>
    /\ Deref(Mem, last) = <<1, 2, 1, 0>>

\* C20: the loops end after width*height positions whatever the run counter
\* is; the end-marker check then reads the next 8 bytes, a run that is not
\* used up is no error, and with width or height 0 the 8 bytes after the
\* header are read as the end marker.
C20_StopsAtLastPixel ==
    [][ /\ (pc = "pixels" /\ Width * Height > 0) => (InLoop <=> Idx < Width * Height)
        /\ (pc = "pixels" /\ Width * Height = 0) => (~InLoop /\ pos = 14 /\ op = "init")
        /\ (pc = "pixels" /\ ~InLoop) =>
               /\ op' = "eof"
               /\ pc' = "done"
               /\ run' = run
               /\ Pix' = Pix
               /\ Len(Pix) = Width * Height
               /\ pos' = pos + Min(8, Remaining(pos))
               /\ err' # ErrInvalidRunLength
               /\ Remaining(pos) >= 8 =>
                      (err' = NoErr <=> SubSeq(stream, pos + 1, pos + 8) = EofMarker)
        /\ op' = "eof" => (pc = "pixels" /\ ~InLoop) ]_vars

\* Decode succeeded with 60 positions of a run of 62 not used
C20_Witness ==
    /\ Returned
    /\ err = NoErr
    /\ ~ret.nil
    /\ run = 60
    /\ Len(ret.Pix) = 2

\* v modulo 256, for v from -256 up
Mod256(v) == (v + 256) % 256

\* C17: DIFF and LUMA give the channels of the signed-delta formulas reduced
\* modulo 256, with the alpha of the last pixel, and a channel that wraps
\* below 0 or above 255 is no error.
C17_DeltasModulo256 ==
    /\ op = "DIFF" =>
           LET l == PrevPixel(Idx - 1)
               b == buf[0]
           IN  /\ pc = "pixels"
               /\ err = NoErr
               /\ Pix[Idx] = << Mod256(l[1] + ((b \div 16) % 4) - 2),
                                Mod256(l[2] + ((b \div 4) % 4) - 2),
                                Mod256(l[3] + (b % 4) - 2),
                                l[4] >>
    /\ (op = "LUMA" /\ pc = "pixels") =>
           LET l == PrevPixel(Idx - 1)
               dg == (buf[0] % 64) - 32
               dr == (buf[1] \div 16) - 8 + dg
               db == (buf[1] % 16) - 8 + dg
           IN  /\ err = NoErr
               /\ Pix[Idx] = << Mod256(l[1] + dr), Mod256(l[2] + dg),
                                Mod256(l[3] + db), l[4] >>
    /\ (op = "LUMA" /\ pc = "done") => (short /\ err = ErrEOF)

\* LUMA with dg = 1, dr = db = -7 on the pixel (254,255,0,1): green wraps
\* above 255 and blue below 0
C17_Witness ==
    /\ op = "LUMA"
    /\ pc = "pixels"
    /\ Idx = 2
    /\ buf[0] = 161
    /\ buf[1] = 0
    /\ Pix[1] = <<254, 255, 0, 1>>
    /\ Pix[2] = <<247, 0, 249, 1>>

\* C18: the run length of a RUN op is in 1..62, the run counter is at most 61
\* and Decode never returns InvalidRunLength, because 0xFE and 0xFF are
\* dispatched as RGB and RGBA.
C18_NoInvalidRunLength ==
    /\ run \in 0..61
    /\ err # ErrInvalidRunLength
    /\ op = "RUN" =>
           /\ pc = "pixels"
           /\ buf[0] \in 192..253
           /\ RunLength(buf[0]) \in 1..62
           /\ run = RunLength(buf[0]) - 1
    /\ (op \in DispatchOps /\ buf[0] = 254) => op = "RGB"
    /\ (op \in DispatchOps /\ buf[0] = 255) => op = "RGBA"

\* the longest run: byte 0xFD, 62 pixels, 61 to go
C18_Witness ==
    /\ op = "RUN"
    /\ buf[0] = 253
    /\ run = 61
    /\ pc = "pixels"

\* the op the op-code table gives to a byte
ExpectedOp(b) ==
    IF b = 254 THEN "RGB"
    ELSE IF b = 255 THEN "RGBA"
    ELSE IF b < 64 THEN "INDEX"
    ELSE IF b < 128 THEN "DIFF"
    ELSE IF b < 192 THEN "LUMA"
    ELSE "RUN"

\* the number of cases of the switch that a state selects
CasesSelected ==
    Cardinality({ c \in 1..7 :
                    \/ c = 1 /\ ENABLED OpRgb
                    \/ c = 2 /\ ENABLED OpRgba
                    \/ c = 3 /\ ENABLED OpIndex
                    \/ c = 4 /\ ENABLED OpDiff
                    \/ c = 5 /\ ENABLED OpLuma
                    \/ c = 6 /\ TwoBitTag(opRun)
                    \/ c = 7 /\ NoCaseMatches })

\* C19: every op-code byte selects exactly one of the six cases, the one of
\* the op-code table, and never none; a step of the pixel loop writes the
\* current position only and moves to the next one in row-major order.
C19_DispatchExhaustive ==
    [][ /\ (pc = "pixels" /\ InLoop /\ run = 0 /\ Remaining(pos) > 0) =>
               /\ CasesSelected = 1
               /\ op' = ExpectedOp(stream[pos + 1])
        /\ op' # "nomatch"
        /\ (pc = "pixels" /\ InLoop /\ pc' = "pixels") =>
               /\ op' \in DispatchOps \cup { "run" }
               /\ Idx' = Idx + 1
               /\ Len(Pix') = Len(Pix)
               /\ \A j \in 1..Len(Pix) : j # Idx + 1 => Pix'[j] = Pix[j]
               /\ x' = (Idx + 1) % Width
               /\ y' = (Idx + 1) \div Width
        /\ (pc = "pixels" /\ ~InLoop) => Idx = Width * Height
        /\ (pc = "pixels" /\ pc' = "done") => Pix' = Pix ]_vars

\* byte 0xFE at the second position was dispatched as RGB
C19_Witness ==
    /\ op = "RGB"
    /\ buf[0] = 254
    /\ stream[20] = 254
    /\ pos = 23
    /\ Idx = 2
    /\ Pix[2] = <<buf[1], buf[2], buf[3], Pix[1][4]>>

=============================================================================
